---- MODULE Spec2Model ----
(***************************************************************************)
(* The store of Legendspire: the /buy handler of the server's storeRouter  *)
(* (src/server/routes/store.ts) over the user, inventory and equipment     *)
(* tables, and the Store component of the client                          *)
(* (src/client/components/Store.tsx) that sends the buy and sell requests. *)
(*                                                                         *)
(* Every await of the handler on a prisma call is one step of the model:   *)
(* the database executes one call atomically, and requests interleave      *)
(* between calls.                                                          *)
(***************************************************************************)
EXTENDS Integers, Sequences, FiniteSets, TLC

\* ---------------------------------------------------------------- bounds

\* Number of HTTP requests a behaviour sends to the server.
MaxRequests == 2

\* Number of those requests that the Store component may send (Buy and Sell clicks).
MaxClicks == 1

\* ------------------------------------------------------------- constants

\* store.ts:65,71 : the flat amount the handler checks and debits.
BuyPrice == 50

\* Rows of the user table (ids), and an id for which no row exists.
Users == {1, 2}
UnknownUser == Cardinality(Users) + 1

\* Store.tsx:36-40 : the userId prop of the Store component.
ClientUser == 1

\* Balances a user row starts with.
GoldValues == {30, 50, 100}

\* Store.tsx:129-135
rarityCostMap ==
  [Common |-> 50, Uncommon |-> 75, Rare |-> 100, Very_rare |-> 200, Legendary |-> 300]

\* The remote catalog (dnd5eapi), read-only: equipment carries cost.quantity,
\* a magic item carries rarity.name.
EquipmentItems == {"club", "shield"}
MagicItems == {"wand"}
Items == EquipmentItems \cup MagicItems
CatalogCost == [club |-> 30, shield |-> 50]
CatalogRarity == [wand |-> "Rare"]

\* The price of an item as the client resolves it (handleCardClick, 237-245).
PriceOf(item) ==
  IF item \in EquipmentItems THEN CatalogCost[item] ELSE rarityCostMap[CatalogRarity[item]]

Slots == 1..MaxRequests
ClientSlots == 1..MaxClicks

VARIABLES
  userTable,       \* prisma.user: id -> [gold]
  inventoryTable,  \* prisma.inventory: the set of user ids that have an inventory row
  equipmentTable,  \* prisma.equipment: sequence of rows [name, inventoryId, owned]; id = position
  req,             \* the requests: slot -> handler state
  activeTab,       \* Store.tsx:54
  selectedIndex,   \* Store.tsx:45 ("" is null)
  itemCost,        \* Store.tsx:56
  gold,            \* Store.tsx:52
  equipment,       \* Store.tsx:41: sequence of [name, owned]
  magicItems,      \* Store.tsx:43: sequence of [name, owned]
  fetches,         \* the fetches of the component that have not resolved yet
  filteredEquipment,   \* Store.tsx:42
  filteredMagicItems,  \* Store.tsx:44
  searchTerm,      \* Store.tsx:50: a sequence of characters
  currentPage,     \* Store.tsx:51
  loading          \* Store.tsx:55

serverVars == <<userTable, inventoryTable, equipmentTable>>
listVars == <<equipment, magicItems, filteredEquipment, filteredMagicItems>>
pageVars == <<searchTerm, currentPage, loading>>
clientVars == <<activeTab, selectedIndex, itemCost, gold, fetches, listVars, pageVars>>
vars == <<userTable, inventoryTable, equipmentTable, req, clientVars>>

\* ------------------------------------------------------------ data types

\* A request body. A field the sender left out is the falsy value of its type
\* (0, ""): the handler only tests fields with `!field`, which does not tell
\* an absent field from a falsy one.
Body(userId, equipmentId, equipmentName, equipmentIndex, cost) ==
  [userId |-> userId, equipmentId |-> equipmentId, equipmentName |-> equipmentName,
   equipmentIndex |-> equipmentIndex, cost |-> cost]

NoBody == Body(0, 0, "", "", 0)
NoItem == [id |-> 0, owned |-> 0]
NoSnapshot == [userTable |-> <<>>, equipmentTable |-> <<>>]
NoClosure == [activeTab |-> "", items |-> <<>>]

IdleRequest ==
  [pc |-> "idle", route |-> "", origin |-> "", body |-> NoBody, userGold |-> 0,
   existingItem |-> NoItem, status |-> 0, message |-> "",
   closure |-> NoClosure, pre |-> NoSnapshot, serial |-> FALSE]

\* The inventory row of a user has the user's id as its id.
InventoryOf(userId) == userId

\* prisma.equipment.findFirst({ where: { name, inventoryId } }): the id of the
\* first matching row, 0 when there is none.
FindFirstEquipment(table, name, inventoryId) ==
  LET hits == {i \in 1..Len(table) :
                 table[i].name = name /\ table[i].inventoryId = inventoryId}
  IN IF hits = {} THEN 0 ELSE CHOOSE i \in hits : \A j \in hits : i <= j

\* The owned count of (user, itemName): 0 when there is no record.
Owned(table, userId, name) ==
  LET id == FindFirstEquipment(table, name, InventoryOf(userId))
  IN IF id = 0 THEN 0 ELSE table[id].owned

\* res.status(s).json({ message }) and return.
Reply(q, status, message) ==
  [q EXCEPT !.pc = "done", !.status = status, !.message = message]

\* A request arriving in slot r; pre and serial record the tables at arrival
\* and whether every earlier request had been answered by then.
Arrive(r, route, origin, body) ==
  [IdleRequest EXCEPT
     !.route = route, !.origin = origin, !.body = body,
     !.pre = [userTable |-> userTable, equipmentTable |-> equipmentTable],
     !.serial = \A s \in Slots : s # r => req[s].pc \in {"idle", "done", "closed"}]

CanArrive(r) ==
  /\ req[r].pc = "idle"
  /\ \A s \in Slots : s < r => req[s].pc # "idle"

\* ------------------------------------------------------------------ init

InitServer ==
  /\ userTable \in {[u \in Users |-> [gold |-> IF u = 1 THEN g ELSE 100]] : g \in GoldValues}
  /\ inventoryTable \in {{2}, {1, 2}}
  /\ equipmentTable \in
       {<<>>} \cup {<<[name |-> "club", inventoryId |-> InventoryOf(u), owned |-> 1]>> :
                      u \in inventoryTable \cap {1}}
  /\ req = [r \in Slots |-> IdleRequest]

\* Store.tsx:41-56 : the useState initial values; the effect of lines 123-127
\* has started the three fetches, of which the first two set loading (96, 110).
InitClient ==
  /\ activeTab = "equipment"
  /\ selectedIndex = ""
  /\ itemCost = 0
  /\ gold = 0
  /\ equipment = <<>>
  /\ magicItems = <<>>
  /\ fetches = {"equipment", "magicItems", "gold"}
  /\ filteredEquipment = <<>>
  /\ filteredMagicItems = <<>>
  /\ searchTerm = <<>>
  /\ currentPage = 1
  /\ loading = TRUE

Init == InitServer /\ InitClient

\* ------------------------------------------------- POST /buy (store.ts)

\* Bodies a caller of the HTTP interface sends: complete ones for every user
\* id and item, and ones with a required field missing.
ApiBodies ==
  {Body(1, 1, item, item, PriceOf(item)) : item \in Items}
  \cup {Body(u, 1, "club", "club", PriceOf("club")) : u \in {2, UnknownUser}}
  \cup {Body(0, 1, "club", "club", PriceOf("club")), Body(1, 0, "club", "club", PriceOf("club")), Body(1, 1, "", "club", PriceOf("club"))}

\* store.ts:50-53
BuyEntry(q) ==
  IF q.body.userId = 0 \/ q.body.equipmentId = 0 \/ q.body.equipmentName = ""
  THEN Reply(q, 400, "User ID, Equipment ID, and Equipment Name are required")
  ELSE [q EXCEPT !.pc = "findUser"]

PostBuy(r, body) ==
  /\ CanArrive(r)
  /\ req' = [req EXCEPT ![r] = BuyEntry(Arrive(r, "buy", "api", body))]
  /\ UNCHANGED <<serverVars, clientVars>>

\* The funds test with the wrong bound: any positive balance passes.
Affordable_Positive(balance) == balance > 0

\* store.ts:65 : the funds test on the balance read at line 56.
Affordable(balance) == ~(balance < BuyPrice)

\* store.ts:56-67 : prisma.user.findUnique and the two checks on its result.
FindUser(r) ==
  /\ req[r].pc = "findUser"
  /\ req' = [req EXCEPT ![r] =
       IF req[r].body.userId \notin DOMAIN userTable
       THEN Reply(@, 404, "User not found")
       ELSE IF ~Affordable(userTable[req[r].body.userId].gold)
       THEN Reply(@, 400, "Not enough gold to buy this item")
       ELSE [@ EXCEPT !.pc = "updateUser", !.userGold = userTable[req[r].body.userId].gold]]
  /\ UNCHANGED <<serverVars, clientVars>>

\* The update without its where clause: every user row gets the new balance.
UpdateUser_AllRows(r) ==
  /\ req[r].pc = "updateUser"
  /\ userTable' = [u \in DOMAIN userTable |-> [gold |-> req[r].userGold - BuyPrice]]
  /\ req' = [req EXCEPT ![r].pc = "findInventory"]
  /\ UNCHANGED <<inventoryTable, equipmentTable, clientVars>>

\* store.ts:69-72 : prisma.user.update with the balance computed from the earlier read.
UpdateUser(r) ==
  /\ req[r].pc = "updateUser"
  /\ userTable' = [userTable EXCEPT ![req[r].body.userId].gold = req[r].userGold - BuyPrice]
  /\ req' = [req EXCEPT ![r].pc = "findInventory"]
  /\ UNCHANGED <<inventoryTable, equipmentTable, clientVars>>

\* store.ts:74-80 : prisma.inventory.findFirst.
FindInventory(r) ==
  /\ req[r].pc = "findInventory"
  /\ req' = [req EXCEPT ![r] =
       IF req[r].body.userId \notin inventoryTable
       THEN Reply(@, 404, "Inventory not found")
       ELSE [@ EXCEPT !.pc = "findItem"]]
  /\ UNCHANGED <<serverVars, clientVars>>

\* store.ts:82-89 : prisma.equipment.findFirst.
FindItem(r) ==
  /\ req[r].pc = "findItem"
  /\ LET id == FindFirstEquipment(equipmentTable, req[r].body.equipmentName,
                                  InventoryOf(req[r].body.userId))
     IN req' = [req EXCEPT ![r] =
          IF id # 0
          THEN [@ EXCEPT !.pc = "updateItem",
                         !.existingItem = [id |-> id, owned |-> equipmentTable[id].owned]]
          ELSE [@ EXCEPT !.pc = "createItem"]]
  /\ UNCHANGED <<serverVars, clientVars>>

\* The update taking one from the count instead of adding one.
UpdateItem_Decrement(r) ==
  /\ req[r].pc = "updateItem"
  /\ equipmentTable' =
       [equipmentTable EXCEPT ![req[r].existingItem.id].owned = req[r].existingItem.owned - 1]
  /\ req' = [req EXCEPT ![r] = Reply(@, 200, "Equipment bought successfully")]
  /\ UNCHANGED <<userTable, inventoryTable, clientVars>>

\* store.ts:90-93,104 : prisma.equipment.update with the count read at line 82.
UpdateItem(r) ==
  /\ req[r].pc = "updateItem"
  /\ equipmentTable' =
       [equipmentTable EXCEPT ![req[r].existingItem.id].owned = req[r].existingItem.owned + 1]
  /\ req' = [req EXCEPT ![r] = Reply(@, 200, "Equipment bought successfully")]
  /\ UNCHANGED <<userTable, inventoryTable, clientVars>>

\* store.ts:95-101,104 : prisma.equipment.create.
CreateItem(r) ==
  /\ req[r].pc = "createItem"
  /\ equipmentTable' = Append(equipmentTable,
       [name |-> req[r].body.equipmentName,
        inventoryId |-> InventoryOf(req[r].body.userId), owned |-> 1])
  /\ req' = [req EXCEPT ![r] = Reply(@, 200, "Equipment bought successfully")]
  /\ UNCHANGED <<userTable, inventoryTable, clientVars>>

\* store.ts:105-108 : any prisma call of the try block may reject (storage
\* fault); the catch answers 500 and undoes nothing.
InTry == {"findUser", "updateUser", "findInventory", "findItem", "updateItem", "createItem"}

StorageFault(r) ==
  /\ req[r].pc \in InTry
  /\ req' = [req EXCEPT ![r] = Reply(@, 500, "Error processing the purchase")]
  /\ UNCHANGED <<serverVars, clientVars>>

\* ----------------------------------------------------------- GET /gold

\* store.ts:27 : parseInt(req.query.userId, 10) on the query strings the model
\* sends. NaN (no digits) is 0 here: line 29 tests only `!userId`, which does
\* not tell NaN from 0.
Digit ==
  ("0" :> 0) @@ ("1" :> 1) @@ ("2" :> 2) @@ ("3" :> 3) @@ ("4" :> 4) @@
  ("5" :> 5) @@ ("6" :> 6) @@ ("7" :> 7) @@ ("8" :> 8) @@ ("9" :> 9)

ParseInt(s) == IF s \in DOMAIN Digit THEN Digit[s] ELSE 0

\* Values of the userId query parameter: a user, an id with no user row
\* (UnknownUser), and no parameter.
GoldQueries == {"1", "3", ""}

\* store.ts:27-31
GoldEntry(q) ==
  IF q.body.userId = 0
  THEN Reply(q, 400, "User ID is required")
  ELSE [q EXCEPT !.pc = "goldFindUser"]

GetGold(r, userId) ==
  /\ CanArrive(r)
  /\ req' = [req EXCEPT ![r] =
       GoldEntry(Arrive(r, "gold", "api", Body(ParseInt(userId), 0, "", "", 0)))]
  /\ UNCHANGED <<serverVars, clientVars>>

\* The query without the test of line 39: a missing user is answered with gold 0.
GoldFindUser_DefaultZero(r) ==
  /\ req[r].pc = "goldFindUser"
  /\ req' = [req EXCEPT ![r] =
       IF req[r].body.userId \notin DOMAIN userTable
       THEN Reply(@, 200, "")
       ELSE Reply([@ EXCEPT !.userGold = userTable[req[r].body.userId].gold], 200, "")]
  /\ UNCHANGED <<serverVars, clientVars>>

\* store.ts:34-43 : prisma.user.findUnique and the answer.
GoldFindUser(r) ==
  /\ req[r].pc = "goldFindUser"
  /\ req' = [req EXCEPT ![r] =
       IF req[r].body.userId \notin DOMAIN userTable
       THEN Reply(@, 404, "User not found")
       ELSE Reply([@ EXCEPT !.userGold = userTable[req[r].body.userId].gold], 200, "")]
  /\ UNCHANGED <<serverVars, clientVars>>

\* store.ts:44-46 : the findUnique call rejects.
GoldFault(r) ==
  /\ req[r].pc = "goldFindUser"
  /\ req' = [req EXCEPT ![r] = Reply(@, 500, "Server error")]
  /\ UNCHANGED <<serverVars, clientVars>>

\* ---------------------------------------------------------- POST /sell

\* store.ts:5-111 : storeRouter registers no '/sell' route; the request falls
\* through the router and is answered 404 without touching a table.
SellBodies == {Body(1, 0, "club", "", PriceOf("club"))}

PostSell(r, body) ==
  /\ CanArrive(r)
  /\ req' = [req EXCEPT ![r] = Reply(Arrive(r, "sell", "api", body), 404, "Not Found")]
  /\ UNCHANGED <<serverVars, clientVars>>

\* ------------------------------------------------ Store.tsx (client)

\* The values of item.owned: a number, undefined or NaN.
JsNumber(n) == [t |-> "number", n |-> n]
JsUndefined == [t |-> "undefined", n |-> 0]
JsNaN == [t |-> "NaN", n |-> 0]

\* item.owned + 1, item.owned - 1
JsAdd(v, k) == IF v.t = "number" THEN JsNumber(v.n + k) ELSE JsNaN
\* item.owned > 0
JsPositive(v) == v.t = "number" /\ v.n > 0
\* item.owned === 0
JsIsZero(v) == v.t = "number" /\ v.n = 0

\* store.ts:7-14 and Store.tsx:79-93 : the list the server returns is the
\* catalog's results (index, name, url), to which the client adds the
\* category; no element has an owned field.
CatalogList(items) ==
  LET RECURSIVE ListOf(_)
      ListOf(S) == IF S = {} THEN <<>>
                   ELSE LET x == CHOOSE y \in S : \A z \in S : y = z \/ PriceOf(y) <= PriceOf(z)
                        IN <<[name |-> x, owned |-> JsUndefined]>> \o ListOf(S \ {x})
  IN ListOf(items)

\* Store.tsx:57
itemsPerPage == 20

\* The characters of the names the catalog gives the items, and the texts
\* typed into the search box.
NameChars ==
  [club |-> <<"C", "l", "u", "b">>, shield |-> <<"S", "h", "i", "e", "l", "d">>,
   wand |-> <<"W", "a", "n", "d">>]
SearchTerms == {<<>>, <<"S">>}

\* String.prototype.toLowerCase on the letters that occur.
LowerOf == ("C" :> "c") @@ ("S" :> "s") @@ ("W" :> "w")
ToLowerCase(str) == [i \in 1..Len(str) |-> IF str[i] \in DOMAIN LowerOf THEN LowerOf[str[i]] ELSE str[i]]

\* String.prototype.includes
Includes(str, part) ==
  \E k \in 0..(Len(str) - Len(part)) : SubSeq(str, k + 1, k + Len(part)) = part

\* Store.tsx:221-222
FilterItems(list, term) ==
  SelectSeq(list, LAMBDA item : Includes(ToLowerCase(NameChars[item.name]), ToLowerCase(term)))

\* Store.tsx:220-225 : the effect that follows a change of searchTerm,
\* equipment, magicItems or activeTab; it rewrites the filtered list of the
\* active tab only. fe, fm: the filtered lists before the effect.
EffectEquipment(tab, term, list, fe) == IF tab = "equipment" THEN FilterItems(list, term) ELSE fe
EffectMagicItems(tab, term, list, fm) == IF tab = "equipment" THEN fm ELSE FilterItems(list, term)

\* Store.tsx:95-107
FetchEquipment(ok) ==
  /\ "equipment" \in fetches
  /\ fetches' = fetches \ {"equipment"}
  /\ loading' = FALSE
  /\ IF ok
     THEN /\ equipment' = CatalogList(EquipmentItems)
          /\ filteredEquipment' =
               EffectEquipment(activeTab, searchTerm, equipment', equipment')
          /\ filteredMagicItems' =
               EffectMagicItems(activeTab, searchTerm, magicItems, filteredMagicItems)
     ELSE UNCHANGED <<equipment, filteredEquipment, filteredMagicItems>>
  /\ UNCHANGED <<serverVars, req, activeTab, selectedIndex, itemCost, gold, magicItems,
                 searchTerm, currentPage>>

\* Store.tsx:109-121
FetchMagicItems(ok) ==
  /\ "magicItems" \in fetches
  /\ fetches' = fetches \ {"magicItems"}
  /\ loading' = FALSE
  /\ IF ok
     THEN /\ magicItems' = CatalogList(MagicItems)
          /\ filteredMagicItems' =
               EffectMagicItems(activeTab, searchTerm, magicItems', magicItems')
          /\ filteredEquipment' =
               EffectEquipment(activeTab, searchTerm, equipment, filteredEquipment)
     ELSE UNCHANGED <<magicItems, filteredEquipment, filteredMagicItems>>
  /\ UNCHANGED <<serverVars, req, activeTab, selectedIndex, itemCost, gold, equipment,
                 searchTerm, currentPage>>

\* Store.tsx:61-76 with store.ts:26-47 (GET /gold)
FetchGold(ok) ==
  /\ "gold" \in fetches
  /\ fetches' = fetches \ {"gold"}
  /\ gold' = IF ok /\ ClientUser \in DOMAIN userTable THEN userTable[ClientUser].gold ELSE gold
  /\ UNCHANGED <<serverVars, req, activeTab, selectedIndex, itemCost, listVars, pageVars>>

\* Store.tsx:169,193,221 : the list of the active tab.
ActiveList == IF activeTab = "equipment" THEN equipment ELSE magicItems

\* Store.tsx:257,260 : the filtered list of the active tab.
ActiveFiltered == IF activeTab = "equipment" THEN filteredEquipment ELSE filteredMagicItems

\* Store.tsx:256-258 : Math.ceil(length / itemsPerPage)
totalPages == (Len(ActiveFiltered) + itemsPerPage - 1) \div itemsPerPage

Min(a, b) == IF a < b THEN a ELSE b
Max(a, b) == IF a > b THEN a ELSE b

\* Array.prototype.slice(start, end): a negative index counts from the end.
Slice(list, start, end) ==
  LET from == IF start < 0 THEN Max(Len(list) + start, 0) ELSE Min(start, Len(list))
      to == IF end < 0 THEN Max(Len(list) + end, 0) ELSE Min(end, Len(list))
  IN SubSeq(list, from + 1, to)

\* Store.tsx:260-261, 400-403 : the cards on screen.
paginatedItems == Slice(ActiveFiltered, (currentPage - 1) * itemsPerPage, currentPage * itemsPerPage)

\* Store.tsx:227-254 ; ok: the detail request succeeded.
HandleCardClick(index, ok) ==
  /\ \E i \in 1..Len(paginatedItems) : paginatedItems[i].name = index
  /\ IF selectedIndex = index
     THEN selectedIndex' = "" /\ itemCost' = 0
     ELSE IF ok
     THEN /\ selectedIndex' = index
          /\ itemCost' = IF activeTab = "equipment" THEN CatalogCost[index]
                         ELSE rarityCostMap[CatalogRarity[index]]
     ELSE UNCHANGED <<selectedIndex, itemCost>>
  /\ UNCHANGED <<serverVars, req, activeTab, gold, fetches, listVars, pageVars>>

\* Store.tsx:387-391 : the Tabs call onChange when the selected tab changes;
\* the effect of lines 220-225 follows.
TabChange(index) ==
  /\ activeTab # (IF index = 0 THEN "equipment" ELSE "magicItems")
  /\ activeTab' = IF index = 0 THEN "equipment" ELSE "magicItems"
  /\ currentPage' = 1
  /\ filteredEquipment' = EffectEquipment(activeTab', searchTerm, equipment, filteredEquipment)
  /\ filteredMagicItems' = EffectMagicItems(activeTab', searchTerm, magicItems, filteredMagicItems)
  /\ UNCHANGED <<serverVars, req, selectedIndex, itemCost, gold, fetches, equipment, magicItems,
                 searchTerm, loading>>

\* Store.tsx:371-375 : typing in the search box; the effect of lines 220-225 follows.
SetSearchTerm(term) ==
  /\ term # searchTerm
  /\ searchTerm' = term
  /\ filteredEquipment' = EffectEquipment(activeTab, term, equipment, filteredEquipment)
  /\ filteredMagicItems' = EffectMagicItems(activeTab, term, magicItems, filteredMagicItems)
  /\ UNCHANGED <<serverVars, req, activeTab, selectedIndex, itemCost, gold, fetches,
                 equipment, magicItems, currentPage, loading>>

\* Store.tsx:413-424 : the Previous button. The buttons of lines 415-453 carry
\* `disabled` exactly where their click would leave currentPage as it is, so
\* the click is modelled whether or not the attribute is honoured.
PreviousPage ==
  /\ ~loading
  /\ currentPage' = Max(currentPage - 1, 1)
  /\ UNCHANGED <<serverVars, req, activeTab, selectedIndex, itemCost, gold, fetches, listVars,
                 searchTerm, loading>>

\* Store.tsx:413,444-453 : the Next button.
NextPage ==
  /\ ~loading
  /\ currentPage' = Min(currentPage + 1, totalPages)
  /\ UNCHANGED <<serverVars, req, activeTab, selectedIndex, itemCost, gold, fetches, listVars,
                 searchTerm, loading>>

\* Store.tsx:413,427-441 : the button of page `page`.
GoToPage(page) ==
  /\ ~loading
  /\ page \in 1..totalPages
  /\ currentPage' = page
  /\ UNCHANGED <<serverVars, req, activeTab, selectedIndex, itemCost, gold, fetches, listVars,
                 searchTerm, loading>>

\* Store.tsx:161-167 : the body handleBuy posts; it carries equipmentIndex and
\* equipmentUrl and no equipmentId.
BuyRequestBody(equipmentName, equipmentIndex, cost) ==
  Body(ClientUser, 0, equipmentName, equipmentIndex, cost)

\* Store.tsx:329-340 and 137-167 : a click on the Buy button of card i, up to
\* the post; the request enters the server's handler (store.ts:50-53).
HandleBuy(r, i) ==
  /\ r \in ClientSlots
  /\ i \in 1..Len(paginatedItems)
  /\ CanArrive(r)
  /\ IF gold < itemCost \/ ClientUser = 0
     THEN UNCHANGED req
     ELSE req' = [req EXCEPT ![r] =
            BuyEntry([Arrive(r, "buy", "client",
                             BuyRequestBody(paginatedItems[i].name, paginatedItems[i].name, itemCost))
                      EXCEPT !.closure = [activeTab |-> activeTab, items |-> ActiveList]])]
  /\ UNCHANGED <<serverVars, clientVars>>

\* Store.tsx:317-328 and 189-191 : a click on the Sell button of card i, up to
\* the post; storeRouter has no '/sell' route (store.ts:5-111).
HandleSell(r, i) ==
  /\ r \in ClientSlots
  /\ i \in 1..Len(paginatedItems)
  /\ ~JsIsZero(paginatedItems[i].owned)
  /\ CanArrive(r)
  /\ req' = [req EXCEPT ![r] =
       Reply([Arrive(r, "sell", "client", Body(ClientUser, 0, paginatedItems[i].name, "", itemCost))
              EXCEPT !.closure = [activeTab |-> activeTab, items |-> ActiveList]],
             404, "Not Found")]
  /\ UNCHANGED <<serverVars, clientVars>>

\* Store.tsx:169-171 and 193-195 : the list the handler writes back.
UpdatedEquipment(q) ==
  [i \in 1..Len(q.closure.items) |->
     IF q.route = "buy"
     THEN IF q.closure.items[i].name = q.body.equipmentName
          THEN [q.closure.items[i] EXCEPT !.owned = JsAdd(@, 1)]
          ELSE q.closure.items[i]
     ELSE IF q.closure.items[i].name = q.body.equipmentName /\ JsPositive(q.closure.items[i].owned)
          THEN [q.closure.items[i] EXCEPT !.owned = JsAdd(@, -1)]
          ELSE q.closure.items[i]]

\* Store.tsx:169-186 and 193-217 : the rest of handleBuy / handleSell once the
\* response has arrived; axios rejects on a status outside 2xx. A list that
\* was set is followed by the effect of lines 220-225.
ClientResponse(r) ==
  /\ req[r].origin = "client"
  /\ req[r].pc = "done"
  /\ req' = [req EXCEPT ![r].pc = "closed"]
  /\ IF req[r].status = 200
     THEN /\ equipment' = IF req[r].closure.activeTab = "equipment"
                          THEN UpdatedEquipment(req[r]) ELSE equipment
          /\ magicItems' = IF req[r].closure.activeTab = "equipment"
                           THEN magicItems ELSE UpdatedEquipment(req[r])
          /\ filteredEquipment' =
               EffectEquipment(activeTab, searchTerm, equipment', filteredEquipment)
          /\ filteredMagicItems' =
               EffectMagicItems(activeTab, searchTerm, magicItems', filteredMagicItems)
          /\ fetches' = fetches \cup {"gold"}
     ELSE UNCHANGED <<listVars, fetches>>
  /\ UNCHANGED <<serverVars, activeTab, selectedIndex, itemCost, gold, pageVars>>

\* ------------------------------------------------------- specification

Handler(r) ==
  \/ FindUser(r)
  \/ UpdateUser(r)
  \/ FindInventory(r)
  \/ FindItem(r)
  \/ UpdateItem(r)
  \/ CreateItem(r)
  \/ StorageFault(r)

Next ==
  \/ \E r \in Slots, body \in ApiBodies : PostBuy(r, body)
  \/ \E r \in Slots, body \in SellBodies : PostSell(r, body)
  \/ \E r \in Slots : Handler(r)
  \/ \E r \in Slots, userId \in GoldQueries : GetGold(r, userId)
  \/ \E r \in Slots : GoldFindUser(r)
  \/ \E r \in Slots : GoldFault(r)

Spec == Init /\ [][Next]_vars

\* The Store component with the server behind it: every request comes from a
\* Buy or Sell click.
NextStore ==
  \/ \E ok \in BOOLEAN : FetchEquipment(ok)
  \/ \E ok \in BOOLEAN : FetchMagicItems(ok)
  \/ \E ok \in BOOLEAN : FetchGold(ok)
  \/ \E index \in Items, ok \in BOOLEAN : HandleCardClick(index, ok)
  \/ \E index \in {0, 1} : TabChange(index)
  \/ \E term \in SearchTerms : SetSearchTerm(term)
  \/ PreviousPage
  \/ NextPage
  \/ \E page \in 1..Cardinality(Items) : GoToPage(page)
  \/ \E r \in Slots, i \in 1..Cardinality(Items) : HandleBuy(r, i)
  \/ \E r \in Slots, i \in 1..Cardinality(Items) : HandleSell(r, i)
  \/ \E r \in Slots : ClientResponse(r)

SpecStore == Init /\ [][NextStore]_vars

\* The operations that write an owned count, on the server and in the
\* client: buys of the client's user sent to the API, and the Buy and Sell
\* clicks on the equipment cards.
OwnedBodies == {Body(ClientUser, 1, item, item, PriceOf(item)) : item \in EquipmentItems}

NextOwned ==
  \/ \E r \in Slots, body \in OwnedBodies : PostBuy(r, body)
  \/ \E r \in Slots : Handler(r)
  \/ \E ok \in BOOLEAN : FetchEquipment(ok)
  \/ \E r \in Slots, i \in 1..Cardinality(Items) : HandleBuy(r, i)
  \/ \E r \in Slots, i \in 1..Cardinality(Items) : HandleSell(r, i)
  \/ \E r \in Slots : ClientResponse(r)

SpecOwned == Init /\ [][NextOwned]_vars

\* ----------------------------------------------------------- properties

Answered(r) == req[r].pc \in {"done", "closed"}

\* Request r has been answered, no other request was in progress when it
\* arrived and none has arrived since: the tables now are the tables it left.
Quiet(r) ==
  /\ Answered(r)
  /\ req[r].serial
  /\ \A s \in Slots : s > r => req[s].pc = "idle"

\* A buy request that names all three fields the handler requires.
CompleteBuy(r) ==
  /\ req[r].route = "buy"
  /\ req[r].body.userId # 0 /\ req[r].body.equipmentId # 0 /\ req[r].body.equipmentName # ""

Accepted(r) == Answered(r) /\ req[r].status = 200

InsufficientFunds(r) ==
  Answered(r) /\ req[r].status = 400 /\ req[r].message = "Not enough gold to buy this item"

\* C1: two buy requests of the same user for a 50-cost item that both arrive
\* while the user has exactly 50 gold, the second while the first is still in
\* progress, and that meet no storage fault and no missing inventory: exactly
\* one is accepted and the other is refused for insufficient funds.
C1_ExactlyOneAccepted ==
  \A r1, r2 \in Slots :
    ( /\ r1 < r2
      /\ CompleteBuy(r1) /\ CompleteBuy(r2)
      /\ Answered(r1) /\ Answered(r2)
      /\ req[r1].body.userId = req[r2].body.userId
      /\ req[r1].body.userId \in Users
      /\ req[r1].body.cost = 50 /\ req[r2].body.cost = 50
      /\ req[r1].pre.userTable[req[r1].body.userId].gold = 50
      /\ req[r2].pre.userTable[req[r2].body.userId].gold = 50
      /\ ~req[r2].serial
      /\ {req[r1].status, req[r2].status} \subseteq {200, 400} )
    => \/ Accepted(r1) /\ InsufficientFunds(r2)
       \/ Accepted(r2) /\ InsufficientFunds(r1)

\* C2: after a buy request that ran alone has been answered (with any
\* response), the user's gold has decreased if and only if the owned count of
\* the matching record has increased by exactly 1.
C2_DebitIffOwnedIncrement ==
  \A r \in Slots :
    (Quiet(r) /\ CompleteBuy(r) /\ req[r].body.userId \in Users)
    => LET u == req[r].body.userId
           name == req[r].body.equipmentName
       IN (userTable[u].gold < req[r].pre.userTable[u].gold)
          <=> (Owned(equipmentTable, u, name) = Owned(req[r].pre.equipmentTable, u, name) + 1)

\* C3: a user's gold is >= 0 in every reachable state.
C3_GoldNonNegative == \A u \in Users : userTable[u].gold >= 0

\* C3 witness: two buy requests of one user that overlapped have both been
\* accepted and the user's gold is 0.
C3_Witness ==
  \E r1, r2 \in Slots :
    /\ r1 < r2
    /\ Accepted(r1) /\ Accepted(r2)
    /\ ~req[r2].serial
    /\ req[r1].body.userId = req[r2].body.userId
    /\ userTable[req[r1].body.userId].gold = 0

\* The buy requests that name user u.
BuysOf(u) == {r \in Slots : req[r].route = "buy" /\ req[r].body.userId = u}

\* C4: once every buy request of a user has been answered, each either
\* accepted or refused before the debit, the user's gold is the initial gold
\* minus the price charged for each accepted request.
C4_NoLostDebit ==
  \A u \in Users :
    ( /\ req[1].pc # "idle"
      /\ \A r \in Slots : req[r].pc = "idle" \/ Answered(r)
      /\ \A r \in BuysOf(u) : req[r].status \in {200, 400} )
    => userTable[u].gold =
         req[1].pre.userTable[u].gold - BuyPrice * Cardinality({r \in BuysOf(u) : Accepted(r)})

\* C5: a buy request that ran alone, for a user who has an inventory and with
\* no storage fault, of an item whose cost is at most the user's gold, is
\* accepted and the gold decreases by exactly that cost.
C5_AffordableBuyAccepted ==
  \A r \in Slots :
    ( /\ Quiet(r) /\ CompleteBuy(r)
      /\ req[r].body.userId \in Users \cap inventoryTable
      /\ req[r].status # 500
      /\ req[r].body.cost <= req[r].pre.userTable[req[r].body.userId].gold )
    => /\ Accepted(r)
       /\ userTable[req[r].body.userId].gold =
            req[r].pre.userTable[req[r].body.userId].gold - req[r].body.cost

\* C6: a buy request that ran alone, for a user who has an inventory and with
\* no storage fault, of an item whose cost exceeds the user's gold fails with
\* InsufficientFunds (status 400) and leaves the user's gold and every
\* inventory record unchanged.
C6_UnaffordableBuyRefused ==
  \A r \in Slots :
    ( /\ Quiet(r) /\ CompleteBuy(r)
      /\ req[r].body.userId \in Users \cap inventoryTable
      /\ req[r].status # 500
      /\ req[r].body.cost > req[r].pre.userTable[req[r].body.userId].gold )
    => /\ InsufficientFunds(r)
       /\ userTable = req[r].pre.userTable
       /\ equipmentTable = req[r].pre.equipmentTable

\* C7: a buy or sell request that ran alone and was refused (status 400 or
\* 404) leaves the gold of every user and all inventory records as they were
\* before the request.
C7_RefusedLeavesStateUnchanged ==
  \A r \in Slots :
    (Quiet(r) /\ req[r].status \in {400, 404})
    => /\ userTable = req[r].pre.userTable
       /\ equipmentTable = req[r].pre.equipmentTable

\* C8: the buy request that handleBuy sends, for an existing user who has an
\* inventory and whose gold covers the handler's price and the cost in the
\* body, is accepted once it has been answered.
C8_ClientBuyAccepted ==
  \A r \in Slots :
    ( /\ req[r].origin = "client" /\ req[r].route = "buy"
      /\ Answered(r)
      /\ req[r].body.userId \in Users \cap inventoryTable
      /\ req[r].pre.userTable[req[r].body.userId].gold >= BuyPrice
      /\ req[r].pre.userTable[req[r].body.userId].gold >= req[r].body.cost )
    => Accepted(r)

\* C9: the cost in the body of every buy or sell request the Store component
\* sends is the price of the item the request names.
C9_CostIsPriceOfItem ==
  \A r \in Slots :
    (req[r].origin = "client" /\ req[r].pc # "idle")
    => req[r].body.cost = PriceOf(req[r].body.equipmentName)

\* C10: the equipment table holds at most one record for a given
\* (inventory, itemName) pair.
C10_AtMostOneRecord ==
  \A i, j \in 1..Len(equipmentTable) :
    (equipmentTable[i].name = equipmentTable[j].name
     /\ equipmentTable[i].inventoryId = equipmentTable[j].inventoryId) => i = j

\* The tables before the first request arrived.
Initial == req[1].pre

AllAnswered ==
  /\ req[1].pc # "idle"
  /\ \A r \in Slots : req[r].pc = "idle" \/ Answered(r)

\* The buy requests for item name of user u.
BuysOfItem(u, name) == {r \in BuysOf(u) : req[r].body.equipmentName = name}

\* C11: once every request has been answered, the owned count of each
\* (user, itemName) is its initial count plus the number of accepted buys of
\* that item by that user.
C11_OwnedCountsAcceptedBuys ==
  \A u \in Users, name \in Items :
    AllAnswered
    => Owned(equipmentTable, u, name) =
         Owned(Initial.equipmentTable, u, name)
           + Cardinality({r \in BuysOfItem(u, name) : Accepted(r)})

\* C12: a sell request that ran alone, for an item of which the user owns at
\* least 1, is accepted, the user's gold increases by the sell price and the
\* owned count decreases by exactly 1.
C12_SellAccepted ==
  \A r \in Slots :
    ( /\ Quiet(r) /\ req[r].route = "sell"
      /\ req[r].body.userId \in Users
      /\ Owned(req[r].pre.equipmentTable, req[r].body.userId, req[r].body.equipmentName) >= 1 )
    => LET u == req[r].body.userId
           name == req[r].body.equipmentName
       IN /\ Accepted(r)
          /\ userTable[u].gold = req[r].pre.userTable[u].gold + req[r].body.cost
          /\ Owned(equipmentTable, u, name) = Owned(req[r].pre.equipmentTable, u, name) - 1

\* The refusal of a sell for lack of the item: a 4xx answer other than 404,
\* which the handlers use for a user or inventory that does not exist.
NothingOwned(r) ==
  Answered(r) /\ req[r].route = "sell" /\ req[r].status \in 400..499 /\ req[r].status # 404

\* C13: a sell request that ran alone, for an item of which the user owns 0,
\* fails with NothingOwned and leaves gold and owned counts unchanged.
C13_SellOfNothingRefused ==
  \A r \in Slots :
    ( /\ Quiet(r) /\ req[r].route = "sell"
      /\ req[r].body.userId \in Users
      /\ Owned(req[r].pre.equipmentTable, req[r].body.userId, req[r].body.equipmentName) = 0 )
    => /\ NothingOwned(r)
       /\ userTable = req[r].pre.userTable
       /\ equipmentTable = req[r].pre.equipmentTable

\* C14: an accepted buy followed by a sell of the same item by the same user
\* at the same price, each running alone, leaves the user's gold and the
\* item's owned count as they were before the buy.
C14_RoundTrip ==
  \A r1, r2 \in Slots :
    ( /\ r2 = r1 + 1
      /\ CompleteBuy(r1) /\ Accepted(r1) /\ req[r1].serial
      /\ req[r2].route = "sell" /\ Quiet(r2)
      /\ req[r1].body.userId = req[r2].body.userId
      /\ req[r1].body.equipmentName = req[r2].body.equipmentName
      /\ req[r1].body.cost = req[r2].body.cost )
    => LET u == req[r1].body.userId
           name == req[r1].body.equipmentName
       IN /\ userTable[u].gold = req[r1].pre.userTable[u].gold
          /\ Owned(equipmentTable, u, name) = Owned(req[r1].pre.equipmentTable, u, name)

\* The equipment rows of user u's inventory.
RowsOf(table, u) == SelectSeq(table, LAMBDA row : row.inventoryId = InventoryOf(u))

\* A step of requests that all name users other than u leaves u's gold and
\* u's inventory records as they are.
FrameOfOthers ==
  \A u \in Users :
    (\A r \in Slots : req'[r] # req[r] => req'[r].body.userId # u)
    => /\ userTable'[u] = userTable[u]
       /\ RowsOf(equipmentTable', u) = RowsOf(equipmentTable, u)

\* A buy of user u that met no storage fault, in a behaviour whose other
\* requests all name other users, ends as it would with no other request.
OutcomeAsIfAlone ==
  \A r \in Slots :
    ( /\ CompleteBuy(r) /\ Answered(r)
      /\ req[r].body.userId \in Users
      /\ req[r].status # 500
      /\ \A s \in Slots \ {r} : req[s].pc = "idle" \/ req[s].body.userId # req[r].body.userId )
    => LET u == req[r].body.userId
           name == req[r].body.equipmentName
           before == Initial.userTable[u].gold
       IN /\ Accepted(r) <=> (Affordable(before) /\ u \in inventoryTable)
          /\ userTable[u].gold = IF Affordable(before) THEN before - BuyPrice ELSE before
          /\ Owned(equipmentTable, u, name) =
               Owned(Initial.equipmentTable, u, name) + (IF Accepted(r) THEN 1 ELSE 0)

\* C15: a buy request of user U changes neither the gold nor any inventory
\* record of another user, and its outcome does not depend on the requests of
\* other users.
C15_UsersIndependent == []OutcomeAsIfAlone /\ [][FrameOfOthers]_vars

\* C15 witness: buy requests of two different users overlapped and both were
\* accepted.
C15_Witness ==
  \E r1, r2 \in Slots :
    /\ r1 < r2
    /\ CompleteBuy(r1) /\ CompleteBuy(r2)
    /\ Accepted(r1) /\ Accepted(r2)
    /\ ~req[r2].serial
    /\ req[r1].body.userId # req[r2].body.userId

\* A request that names a user id for which no user row exists.
NamesUnknownUser(r) ==
  /\ req[r].route = "gold" \/ CompleteBuy(r)
  /\ req[r].body.userId # 0
  /\ req[r].body.userId \notin Users

\* C17: a gold query or a buy request that names a user id with no user row
\* and meets no storage fault is answered 404 'User not found'; having run
\* alone, it has changed no user's gold and no inventory record.
C17_UnknownUserNotFound ==
  \A r \in Slots :
    (Answered(r) /\ NamesUnknownUser(r) /\ req[r].status # 500)
    => /\ req[r].status = 404 /\ req[r].message = "User not found"
       /\ Quiet(r) => (userTable = req[r].pre.userTable
                       /\ equipmentTable = req[r].pre.equipmentTable)

\* C17 witness: a buy request and a gold query for an unknown user have both
\* been answered 404.
C17_Witness ==
  \E r1, r2 \in Slots :
    /\ req[r1].route = "buy" /\ req[r2].route = "gold"
    /\ NamesUnknownUser(r1) /\ NamesUnknownUser(r2)
    /\ req[r1].status = 404 /\ req[r2].status = 404

\* item.owned < 0
JsNegative(v) == v.t = "number" /\ v.n < 0

C18_CurrentPageExists == currentPage \in 1..Max(1, totalPages)

====
